---- MODULE Spec2Model ----
(***************************************************************************)
(* Model of the chat inference service, src/python-services/chat_api.py:   *)
(* the bounded LRU ModelCache, load_model / get_model, and the request     *)
(* handlers built on them.                                                 *)
(*                                                                         *)
(* Scheduling.  Every endpoint is an `async def` coroutine whose body      *)
(* contains no await (chat_api.py:289-363), and the service runs as one    *)
(* uvicorn process with one event loop (chat_api.py:394-400).  A handler   *)
(* therefore runs from its first statement to its return without any       *)
(* other handler running in between; concurrent requests are interleaved   *)
(* at the granularity of whole handlers.  One action below is one          *)
(* handler; the order in which the actions fire is the order in which the  *)
(* event loop picks the pending requests.  chat is written as two steps,   *)
(* up to and after its generate_response call, so that the state in which  *)
(* a generation is running is a state of the model; no other handler is    *)
(* enabled in between.                                                     *)
(*                                                                         *)
(* clean_response is a pure function of two strings.  It is modelled on    *)
(* sequences of characters and exercised by a specification of its own,    *)
(* SpecClean, whose initial states are the argument pairs.                 *)
(*                                                                         *)
(* Environment.  The model directory of a path is read from disk by every  *)
(* call of load_model; what it finds there (ArtifactKinds) is an input of  *)
(* the call.  The trainer of this repository rewrites output directories   *)
(* in place (enhanced_trainer.py:259, 323, 374-388), so two calls for one  *)
(* path need not find the same thing.                                      *)
(***************************************************************************)
EXTENDS Integers, Sequences, FiniteSets

\* Bounds of the model.
NumKeys == 3        \* distinct model paths that requests name
MaxN == 2           \* largest configured MAX_CACHED_MODELS explored
MaxLoads == 3       \* successful loads explored in one behaviour
MaxRun == 2         \* length up to which a run of same-key requests is counted
MaxRaw == 4         \* longest raw text given to clean_response
MaxPrompt == 2      \* longest prompt given to clean_response

Keys == 1 .. NumKeys
NoKey == 0

\* What load_model finds at a model path (chat_api.py:166-193).
ArtifactKinds == {"missing", "noweights", "corrupt", "badmeta", "nometa", "ok"}

\* A loaded bundle (the `info` dict), identified by the load that built it.
\* Its "config" entry is reported by the load itself (TrainingConfig).
NoValue == [loaded_at |-> 0]
Info(now) == [loaded_at |-> now]

\* training_config read by a load that gets that far (chat_api.py:189-193):
\* {} when the file is absent, the parsed document otherwise.
TrainingConfig(kind) == IF kind = "ok" THEN "parsed" ELSE "empty"

VARIABLES
    maxSize,    \* ModelCache._max_size
    cache,      \* ModelCache._cache: sequence of [key, value], least recent first
    clock,      \* number of bundles built so far (datetime.now() of the last one)
    alive,      \* the application is between startup and shutdown
    last,       \* what the handler that ran last did and answered
    stamp,      \* per key: rank of the time of its last access, 0 when not resident
    run,        \* the current run of consecutive chat requests for one key
    busy,       \* the chat request whose generate_response call is running, if any
    pair,       \* two chat requests in a row that each put a key that was absent
    text        \* a clean_response call: its arguments and, once done, its result

vars == <<maxSize, cache, clock, alive, last, stamp, run, busy, pair, text>>

----------------------------------------------------------------------------
\* clean_response.  A string is a sequence of one-character strings.

\* Characters the bounded arguments are built from: a letter, a blank and
\* two of the sentence terminators.
Alphabet == {"a", " ", ".", "?"}

\* Characters str.strip() removes, and the characters of ".!?".
Whitespace == {" ", "\t", "\n", "\r"}
Terminators == {".", "!", "?"}

Fallback ==
    <<"I", "'", "m", " ", "n", "o", "t", " ", "s", "u", "r", "e",
    " ", "h", "o", "w", " ", "t", "o", " ", "r", "e", "s", "p",
    "o", "n", "d", " ", "t", "o", " ", "t", "h", "a", "t", ".">>

StringsUpTo(n) == UNION {[1 .. m -> Alphabet] : m \in 0 .. n}

\* raw.startswith(prompt)
StartsWith(raw, prompt) ==
    /\ Len(prompt) <= Len(raw)
    /\ SubSeq(raw, 1, Len(prompt)) = prompt

\* response.strip()
Strip(response) ==
    LET inner == {i \in DOMAIN response : response[i] \notin Whitespace}
    IN  IF inner = {} THEN <<>>
        ELSE SubSeq(response,
                    CHOOSE i \in inner : \A j \in inner : i <= j,
                    CHOOSE i \in inner : \A j \in inner : j <= i)

\* The loop over enumerate(response) from character i on (i counts from 1,
\* last_end from 0 as in the source).
RECURSIVE LastEnd(_, _, _)
LastEnd(response, i, last_end) ==
    IF i > Len(response) THEN last_end
    ELSE LastEnd(response, i + 1,
                 IF response[i] \in Terminators THEN i - 1 ELSE last_end)

\* Variant: a terminator at index 0 cuts as well.
CutAtFirstToo(response, last_end) ==
    IF last_end >= 0 THEN SubSeq(response, 1, last_end + 1) ELSE response

\* if last_end > 0: response = response[: last_end + 1]
CutAt(response, last_end) ==
    IF last_end > 0 THEN SubSeq(response, 1, last_end + 1) ELSE response

\* Variant: an empty text is returned as it is.
OrNothing(response) == response

\* `if not response: return "I'm not sure ..."`, `response or "I'm not sure ..."`
OrFallback(response) == IF response = <<>> THEN Fallback ELSE response

CleanResponse(raw, prompt) ==
    LET response == Strip(IF StartsWith(raw, prompt)
                          THEN SubSeq(raw, Len(prompt) + 1, Len(raw))
                          ELSE raw)
    IN  IF response = <<>> THEN OrFallback(response)
        ELSE OrFallback(Strip(CutAt(response, LastEnd(response, 1, -1))))

NoText == [raw |-> <<>>, prompt |-> <<>>, response |-> <<>>, done |-> FALSE]

\* Argument pairs beyond the bounded alphabet.
SkyRaw ==
    <<"T", "h", "e", " ", "s", "k", "y", " ", "i", "s", " ", "b",
    "l", "u", "e", ".", " ", "I", "t", " ", "i", "s", " ", "n",
    "i", "c", "e">>
SkyOut ==
    <<"T", "h", "e", " ", "s", "k", "y", " ", "i", "s", " ", "b",
    "l", "u", "e", ".">>
HelloRaw ==
    <<"H", "e", "l", "l", "o", " ", "w", "o", "r", "l", "d", ".",
    " ", "H", "o", "w", " ", "a", "r", "e", " ", "y", "o", "u">>
HelloPrompt ==
    <<"H", "e", "l", "l", "o", " ", "w", "o", "r", "l", "d", ".">>
HelloOut ==
    <<"H", "o", "w", " ", "a", "r", "e", " ", "y", "o", "u">>

Examples ==
    {<<SkyRaw, <<>>>>, <<HelloRaw, HelloPrompt>>, <<<<>>, <<"x">>>>,
     <<HelloPrompt, HelloPrompt>>}

----------------------------------------------------------------------------
\* OrderedDict primitives

Ev(e, k, s) == [e |-> e, key |-> k, size |-> s]

Has(c, k) == \E i \in DOMAIN c : c[i].key = k

IndexOf(c, k) == CHOOSE i \in DOMAIN c : c[i].key = k

ValueOf(c, k) == c[IndexOf(c, k)].value

Without(c, k) == SelectSeq(c, LAMBDA e : e.key # k)

MoveToEnd(c, k) == Append(Without(c, k), c[IndexOf(c, k)])

\* d[k] = v: an existing key keeps its position, a new key goes to the end.
SetItem(c, k, v) ==
    IF Has(c, k)
    THEN [i \in DOMAIN c |-> IF c[i].key = k THEN [key |-> k, value |-> v] ELSE c[i]]
    ELSE Append(c, [key |-> k, value |-> v])

CacheKeys(c) == [i \in DOMAIN c |-> c[i].key]

CacheValues(c) == [i \in DOMAIN c |-> c[i].value]

KeySet(c) == {c[i].key : i \in DOMAIN c}

----------------------------------------------------------------------------
\* ModelCache methods.  Each returns the dict after the call, the value
\* returned, and `events`: the statements that touched _cache or freed
\* memory, in program order, each with len(_cache) right after it.

FreeMemory(c) == Ev("free_memory", NoKey, Len(c))

\* Variant: a hit that does not promote the entry.
CacheGetNoMove(c, k) ==
    IF Has(c, k)
    THEN [cache |-> c, hit |-> TRUE, value |-> ValueOf(c, k), events |-> <<>>]
    ELSE [cache |-> c, hit |-> FALSE, value |-> NoValue, events |-> <<>>]

CacheGet(c, k) ==
    IF Has(c, k)
    THEN LET c1 == MoveToEnd(c, k)
         IN  [cache |-> c1, hit |-> TRUE, value |-> ValueOf(c1, k),
              events |-> <<Ev("move_to_end", k, Len(c1))>>]
    ELSE [cache |-> c, hit |-> FALSE, value |-> NoValue, events |-> <<>>]

\* Variant: the new entry goes in first and the eviction follows.
CachePutInsertFirst(c, n, k, v) ==
    IF Has(c, k)
    THEN LET c1 == MoveToEnd(c, k)
             c2 == SetItem(c1, k, v)
         IN  [cache |-> c2,
              events |-> <<Ev("move_to_end", k, Len(c1)), Ev("setitem", k, Len(c2))>>]
    ELSE LET c1 == SetItem(c, k, v)
         IN  IF Len(c) >= n
             THEN [cache |-> Tail(c1),
                   events |-> <<Ev("setitem", k, Len(c1)),
                                Ev("popitem", Head(c1).key, Len(c1) - 1),
                                FreeMemory(Tail(c1))>>]
             ELSE [cache |-> c1, events |-> <<Ev("setitem", k, Len(c1))>>]

\* Variant: popitem(last=True), the most recent entry is evicted.
CachePutPopLast(c, n, k, v) ==
    IF Has(c, k)
    THEN LET c1 == MoveToEnd(c, k)
             c2 == SetItem(c1, k, v)
         IN  [cache |-> c2,
              events |-> <<Ev("move_to_end", k, Len(c1)), Ev("setitem", k, Len(c2))>>]
    ELSE IF Len(c) >= n
    THEN LET c1 == SubSeq(c, 1, Len(c) - 1)
             c2 == SetItem(c1, k, v)
         IN  [cache |-> c2,
              events |-> <<Ev("popitem", c[Len(c)].key, Len(c1)), FreeMemory(c1),
                           Ev("setitem", k, Len(c2))>>]
    ELSE LET c2 == SetItem(c, k, v)
         IN  [cache |-> c2, events |-> <<Ev("setitem", k, Len(c2))>>]

\* Variant: a resident key is overwritten in place, without move_to_end.
CachePutNoMove(c, n, k, v) ==
    IF Has(c, k)
    THEN LET c2 == SetItem(c, k, v)
         IN  [cache |-> c2,
              events |-> <<Ev("move_to_end", k, Len(c)), Ev("setitem", k, Len(c2))>>]
    ELSE IF Len(c) >= n
    THEN LET c1 == Tail(c)
             c2 == SetItem(c1, k, v)
         IN  [cache |-> c2,
              events |-> <<Ev("popitem", Head(c).key, Len(c1)), FreeMemory(c1),
                           Ev("setitem", k, Len(c2))>>]
    ELSE LET c2 == SetItem(c, k, v)
         IN  [cache |-> c2, events |-> <<Ev("setitem", k, Len(c2))>>]

\* Variant: a full cache turns the new entry away instead of evicting.
CachePutReject(c, n, k, v) ==
    IF Has(c, k)
    THEN LET c1 == MoveToEnd(c, k)
             c2 == SetItem(c1, k, v)
         IN  [cache |-> c2,
              events |-> <<Ev("move_to_end", k, Len(c1)), Ev("setitem", k, Len(c2))>>]
    ELSE IF Len(c) >= n
    THEN [cache |-> c, events |-> <<>>]
    ELSE LET c2 == SetItem(c, k, v)
         IN  [cache |-> c2, events |-> <<Ev("setitem", k, Len(c2))>>]

\* Variant: put makes room before it looks whether the key is resident.
CachePutRoomFirst(c, n, k, v) ==
    IF Len(c) >= n
    THEN LET c1 == Tail(c)
             c2 == SetItem(c1, k, v)
         IN  [cache |-> IF Has(c1, k) THEN MoveToEnd(c2, k) ELSE c2,
              events |-> <<Ev("popitem", Head(c).key, Len(c1)), FreeMemory(c1),
                           Ev(IF Has(c1, k) THEN "move_to_end" ELSE "setitem", k, Len(c2))>>]
    ELSE LET c2 == SetItem(c, k, v)
         IN  [cache |-> IF Has(c, k) THEN MoveToEnd(c2, k) ELSE c2,
              events |-> <<Ev(IF Has(c, k) THEN "move_to_end" ELSE "setitem", k, Len(c2))>>]

CachePut(c, n, k, v) ==
    IF Has(c, k)
    THEN LET c1 == MoveToEnd(c, k)
             c2 == SetItem(c1, k, v)
         IN  [cache |-> c2,
              events |-> <<Ev("move_to_end", k, Len(c1)), Ev("setitem", k, Len(c2))>>]
    ELSE IF Len(c) >= n
    THEN LET c1 == Tail(c)
             c2 == SetItem(c1, k, v)
         IN  [cache |-> c2,
              events |-> <<Ev("popitem", Head(c).key, Len(c1)), FreeMemory(c1),
                           Ev("setitem", k, Len(c2))>>]
    ELSE LET c2 == SetItem(c, k, v)
         IN  [cache |-> c2, events |-> <<Ev("setitem", k, Len(c2))>>]

\* Variant: remove deletes the oldest entry instead of the one asked for.
CacheRemoveOldest(c, k) ==
    IF Has(c, k)
    THEN LET c1 == Tail(c)
         IN  [cache |-> c1, removed |-> TRUE,
              events |-> <<Ev("delitem", k, Len(c1)), FreeMemory(c1)>>]
    ELSE [cache |-> c, removed |-> FALSE, events |-> <<>>]

\* Variant: remove without the _free_memory call.
CacheRemoveNoFree(c, k) ==
    IF Has(c, k)
    THEN LET c1 == Without(c, k)
         IN  [cache |-> c1, removed |-> TRUE, events |-> <<Ev("delitem", k, Len(c1))>>]
    ELSE [cache |-> c, removed |-> FALSE, events |-> <<>>]

CacheRemove(c, k) ==
    IF Has(c, k)
    THEN LET c1 == Without(c, k)
         IN  [cache |-> c1, removed |-> TRUE,
              events |-> <<Ev("delitem", k, Len(c1)), FreeMemory(c1)>>]
    ELSE [cache |-> c, removed |-> FALSE, events |-> <<>>]

CacheClear(c) ==
    [cache |-> <<>>, events |-> <<Ev("clear", NoKey, 0), FreeMemory(<<>>)>>]

----------------------------------------------------------------------------
\* load_model and get_model

\* load_model raises: nothing was put, nothing is returned.
Failed(c, code, kind) ==
    [status |-> code, cache |-> c, value |-> NoValue, events |-> <<>>,
     hit |-> FALSE, loads |-> 1, put |-> FALSE, kind |-> kind, config |-> "none"]

\* Variant: the bundle is put as soon as the weights are read, before the
\* training_config is.
LoadModelEarlyPut(c, n, k, kind, now) ==
    IF kind = "missing" THEN Failed(c, 404, kind)
    ELSE IF kind = "noweights" THEN Failed(c, 404, kind)
    ELSE IF kind = "corrupt" THEN Failed(c, 500, kind)
    ELSE LET info == Info(now + 1)
             p == CachePut(c, n, k, info)
         IN  IF kind = "badmeta"
             THEN [Failed(p.cache, 500, kind) EXCEPT !.events = p.events]
             ELSE [status |-> 200, cache |-> p.cache, value |-> info,
                   events |-> p.events, hit |-> FALSE, loads |-> 1, put |-> TRUE,
                   kind |-> kind, config |-> TrainingConfig(kind)]

\* Variant: the bundle is returned without being put.
LoadModelNoPut(c, n, k, kind, now) ==
    IF kind = "missing" THEN Failed(c, 404, kind)
    ELSE IF kind = "noweights" THEN Failed(c, 404, kind)
    ELSE IF kind = "corrupt" THEN Failed(c, 500, kind)
    ELSE IF kind = "badmeta" THEN Failed(c, 500, kind)
    ELSE [status |-> 200, cache |-> c, value |-> Info(now + 1), events |-> <<>>,
          hit |-> FALSE, loads |-> 1, put |-> TRUE, kind |-> kind,
          config |-> TrainingConfig(kind)]

\* `loads` counts the calls of load_model; `now` is the number of bundles
\* built before.  404: the HTTPException of lines 167 and 174.  500: an
\* exception out of from_pretrained (lines 179-180) or json.load (line 193).
LoadModel(c, n, k, kind, now) ==
    IF kind = "missing" THEN Failed(c, 404, kind)
    ELSE IF kind = "noweights" THEN Failed(c, 404, kind)
    ELSE IF kind = "corrupt" THEN Failed(c, 500, kind)
    ELSE IF kind = "badmeta" THEN Failed(c, 500, kind)
    ELSE LET info == Info(now + 1)
             p == CachePut(c, n, k, info)
         IN  [status |-> 200, cache |-> p.cache, value |-> info, events |-> p.events,
              hit |-> FALSE, loads |-> 1, put |-> TRUE, kind |-> kind,
              config |-> TrainingConfig(kind)]

\* Variant: the cache is not consulted.
GetModelAlwaysLoad(c, n, k, kind, now) ==
    LoadModel(c, n, k, IF kind = "unread" THEN "ok" ELSE kind, now)

GetModel(c, n, k, kind, now) ==
    LET g == CacheGet(c, k)
    IN  IF g.hit
        THEN [status |-> 200, cache |-> g.cache, value |-> g.value, events |-> g.events,
              hit |-> TRUE, loads |-> 0, put |-> FALSE, kind |-> "unread",
              config |-> "none"]
        ELSE LoadModel(g.cache, n, k, kind, now)

----------------------------------------------------------------------------
\* Observers

\* Ranks 1..m of the resident keys by time of last access; `touched` is the
\* key accessed by the handler that just ran (NoKey if none), c the dict after it.
Restamp(st, c, touched) ==
    LET raw == [k \in Keys |-> IF ~Has(c, k) THEN 0
                               ELSE IF k = touched THEN NumKeys + 1
                               ELSE st[k]]
    IN  [k \in Keys |-> IF raw[k] = 0 THEN 0
                        ELSE Cardinality({j \in Keys : raw[j] # 0 /\ raw[j] <= raw[k]})]

Touched(r, k) == IF r.hit \/ r.put THEN k ELSE NoKey

NoRun == [key |-> NoKey, served |-> 0, loads |-> 0, values |-> {}]

Min(a, b) == IF a < b THEN a ELSE b

\* A run is a chat request that finds its key absent and resolves it,
\* followed by every directly following chat request for that key that
\* resolves it too; anything else ends the run.
NextRun(rn, k, r) ==
    IF r.status # 200 THEN NoRun
    ELSE IF rn.key = k
    THEN [key |-> k, served |-> Min(rn.served + 1, MaxRun),
          loads |-> Min(rn.loads + r.loads, MaxRun),
          values |-> rn.values \cup {r.value}]
    ELSE IF ~r.hit
    THEN [key |-> k, served |-> 1, loads |-> r.loads, values |-> {r.value}]
    ELSE NoRun

\* The keys a handler's popitem calls removed.
Evicted(events) == {events[i].key : i \in {j \in DOMAIN events : events[j].e = "popitem"}}

\* The key the handler before this one fetched by a get hit, noted when
\* this handler evicts (NoKey otherwise).
HitBefore(lst, r) ==
    IF lst.hit /\ Evicted(r.events) # {} THEN lst.key ELSE NoKey

Answer(op, k, code, r, count, before) ==
    [op |-> op, key |-> k, status |-> code, hit |-> r.hit, loads |-> r.loads,
     put |-> r.put, kind |-> r.kind, config |-> r.config, value |-> r.value,
     events |-> r.events, count |-> count, hitBefore |-> before]

Quiet == [hit |-> FALSE, loads |-> 0, put |-> FALSE, kind |-> "unread",
          config |-> "none", value |-> NoValue, events |-> <<>>]

\* chat reads the disk only on a miss (get_model, line 212).
DiskReads(c, k) == IF Has(c, k) THEN {"unread"} ELSE ArtifactKinds

\* generate_response runs only once a bundle is resolved; it may raise.
GenerateCodes(r) == IF r.status = 200 THEN {200, 500} ELSE {r.status}

\* Status of a chat request that has not answered yet.
Pending == 0

NoBusy == [key |-> NoKey, value |-> NoValue, status |-> Pending]

\* model_info, the reference chat holds from get_model to its return.
Holding(k, r) ==
    IF r.status = 200 THEN [key |-> k, value |-> r.value, status |-> r.status]
    ELSE NoBusy

\* Variant: chat yields to the event loop while generate_response runs.
IdleWhileGenerating == TRUE

\* No handler is running.  A handler starts only then: chat does not await,
\* so the event loop starts no other handler before chat returns.
Idle == busy = NoBusy

NoPair == [first |-> NoKey, second |-> NoKey]

\* The keys of this chat request and the one before it, when each of the
\* two found its key absent and put it.
NextPair(lst, k, r) ==
    IF r.put /\ lst.op = "chat" /\ lst.put /\ lst.key # k
    THEN [first |-> lst.key, second |-> k]
    ELSE NoPair

----------------------------------------------------------------------------
\* State machine

Init ==
    /\ maxSize \in 1 .. MaxN
    /\ cache = <<>>
    /\ clock = 0
    /\ alive = TRUE
    /\ last = Answer("start", NoKey, 200, Quiet, 0, NoKey)
    /\ stamp = [k \in Keys |-> 0]
    /\ run = NoRun
    /\ busy = NoBusy
    /\ pair = NoPair
    /\ text = NoText

\* POST /chat, up to the call of generate_response: get_model either
\* raises, which answers the request, or returns the bundle chat then holds.
Chat(k) ==
    /\ alive
    /\ Idle
    /\ \E kind \in DiskReads(cache, k) :
       \E r \in {GetModel(cache, maxSize, k, kind, clock)} :
             /\ r.put => clock < MaxLoads
             /\ cache' = r.cache
             /\ clock' = IF r.put THEN clock + 1 ELSE clock
             /\ last' = Answer("chat", k, IF r.status = 200 THEN Pending ELSE r.status,
                               r, 0, HitBefore(last, r))
             /\ stamp' = Restamp(stamp, r.cache, Touched(r, k))
             /\ run' = NextRun(run, k, r)
             /\ busy' = Holding(k, r)
             /\ pair' = NextPair(last, k, r)
    /\ UNCHANGED <<text, maxSize, alive>>

\* POST /chat, the rest: generate_response returns or raises and chat answers.
Generate ==
    /\ busy # NoBusy
    /\ \E code \in GenerateCodes(busy) :
           last' = [last EXCEPT !.status = code]
    /\ busy' = NoBusy
    /\ UNCHANGED <<text, maxSize, cache, clock, alive, stamp, run, pair>>

\* POST /preload/{model_path}
Preload(k) ==
    /\ alive
    /\ Idle
    /\ \E kind \in ArtifactKinds :
       \E r \in {LoadModel(cache, maxSize, k, kind, clock)} :
             /\ r.put => clock < MaxLoads
             /\ cache' = r.cache
             /\ clock' = IF r.put THEN clock + 1 ELSE clock
             /\ last' = Answer("preload", k, r.status, r, 0, HitBefore(last, r))
             /\ stamp' = Restamp(stamp, r.cache, Touched(r, k))
    /\ run' = NoRun
    /\ pair' = NoPair
    /\ UNCHANGED <<text, maxSize, alive, busy>>

\* DELETE /unload/{model_path}
Unload(k) ==
    /\ alive
    /\ Idle
    /\ \E r \in {CacheRemove(cache, k)} :
           /\ cache' = r.cache
           /\ last' = Answer("unload", k, IF r.removed THEN 200 ELSE 404,
                             [Quiet EXCEPT !.events = r.events], 0, NoKey)
           /\ stamp' = Restamp(stamp, r.cache, NoKey)
    /\ run' = NoRun
    /\ pair' = NoPair
    /\ UNCHANGED <<text, maxSize, clock, alive, busy>>

\* GET /models
ListLoadedModels ==
    /\ alive
    /\ Idle
    /\ last' = Answer("models", NoKey, 200, Quiet, Len(CacheValues(cache)), NoKey)
    /\ run' = NoRun
    /\ pair' = NoPair
    /\ UNCHANGED <<text, maxSize, cache, clock, alive, stamp, busy>>

\* GET /health
HealthCheck ==
    /\ alive
    /\ Idle
    /\ last' = Answer("health", NoKey, 200, Quiet, Len(cache), NoKey)
    /\ run' = NoRun
    /\ pair' = NoPair
    /\ UNCHANGED <<text, maxSize, cache, clock, alive, stamp, busy>>

\* lifespan, after the yield: the cache is cleared and no request runs any more.
Shutdown ==
    /\ alive
    /\ Idle
    /\ \E r \in {CacheClear(cache)} :
           /\ cache' = r.cache
           /\ last' = Answer("shutdown", NoKey, 200,
                             [Quiet EXCEPT !.events = r.events], 0, NoKey)
           /\ stamp' = Restamp(stamp, r.cache, NoKey)
    /\ alive' = FALSE
    /\ run' = NoRun
    /\ pair' = NoPair
    /\ UNCHANGED <<text, maxSize, clock, busy>>

Next ==
    \/ \E k \in Keys : Chat(k)
    \/ Generate
    \/ \E k \in Keys : Preload(k)
    \/ \E k \in Keys : Unload(k)
    \/ ListLoadedModels
    \/ HealthCheck
    \/ Shutdown

Spec == Init /\ [][Next]_vars

\* clean_response on its own: every argument pair is an initial state and
\* the one step is the call.
InitClean ==
    /\ maxSize = 1
    /\ cache = <<>>
    /\ clock = 0
    /\ alive = TRUE
    /\ last = Answer("start", NoKey, 200, Quiet, 0, NoKey)
    /\ stamp = [k \in Keys |-> 0]
    /\ run = NoRun
    /\ busy = NoBusy
    /\ pair = NoPair
    /\ \E args \in (StringsUpTo(MaxRaw) \X StringsUpTo(MaxPrompt)) \cup Examples :
           text = [NoText EXCEPT !.raw = args[1], !.prompt = args[2]]

Clean ==
    /\ ~text.done
    /\ text' = [text EXCEPT !.response = CleanResponse(text.raw, text.prompt),
                            !.done = TRUE]
    /\ UNCHANGED <<maxSize, cache, clock, alive, last, stamp, run, busy, pair>>

NextClean == Clean

SpecClean == InitClean /\ [][NextClean]_vars

----------------------------------------------------------------------------
\* Properties

PutMiss(lst) ==
    lst.put /\ \A i \in DOMAIN lst.events : lst.events[i].e # "move_to_end"

PutHit(lst) ==
    lst.put /\ \E i \in DOMAIN lst.events : lst.events[i].e = "move_to_end"

Count(events, e) == Cardinality({i \in DOMAIN events : events[i].e = e})

\* C1: the cache never holds more than maxSize entries: not between two
\* handlers and not after any statement inside one (every size a handler's
\* statements leave behind is within the bound), and where put evicts, the
\* popitem comes before the insertion.
SizeNeverExceedsMax ==
    /\ Len(cache) <= maxSize
    /\ \A i \in DOMAIN last.events : last.events[i].size <= maxSize
    /\ \A i, j \in DOMAIN last.events :
         (last.events[i].e = "popitem" /\ last.events[j].e = "setitem") => i < j

\* A put into a full cache has evicted and inserted.
FullPutDone ==
    /\ PutMiss(last)
    /\ Evicted(last.events) # {}
    /\ Len(cache) = maxSize

\* The resident key whose last access is the oldest.
Oldest(c, st) == CHOOSE k \in KeySet(c) : \A j \in KeySet(c) : st[k] <= st[j]

\* C2: a put of an absent key into a full cache evicts exactly one entry,
\* the one whose last access (insertion, get hit or put hit) is older than
\* that of every other resident before the call; all the others stay.
EvictsLeastRecentlyUsed ==
    [][(PutMiss(last') /\ ~Has(cache, last'.key) /\ Len(cache) = maxSize) =>
         /\ \A j \in KeySet(cache) \ {Oldest(cache, stamp)} :
               stamp[Oldest(cache, stamp)] < stamp[j]
         /\ Count(last'.events, "popitem") = 1
         /\ Evicted(last'.events) = {Oldest(cache, stamp)}
         /\ KeySet(cache') = (KeySet(cache) \ {Oldest(cache, stamp)}) \cup {last'.key}
         /\ \A j \in KeySet(cache) \ {Oldest(cache, stamp)} :
               ValueOf(cache', j) = ValueOf(cache, j)]_vars

\* A preload into a full cache of two or more entries has evicted one.
EvictedOneOfSeveral ==
    /\ PutMiss(last)
    /\ last.op = "preload"
    /\ Count(last.events, "popitem") = 1
    /\ maxSize >= 2
    /\ Len(cache) = maxSize

\* A get hit leaves its key most recent.
GetPromotes ==
    (last.op = "chat" /\ last.hit) =>
        (cache # <<>> /\ cache[Len(cache)].key = last.key)

\* C3 as stated: a get hit promotes its key, and for every maxSize >= 1 a put
\* of another, absent key into the full cache right after the hit does not
\* evict the key that was hit.
HitKeySurvivesAnySize ==
    /\ GetPromotes
    /\ (last.hitBefore # NoKey /\ PutMiss(last) /\ last.key # last.hitBefore) =>
          last.hitBefore \notin Evicted(last.events)

\* C3 amended: the same for every maxSize >= 2; with maxSize = 1 the key
\* that was hit is the only entry and is the one evicted.
HitKeySurvives ==
    /\ GetPromotes
    /\ (last.hitBefore # NoKey /\ PutMiss(last) /\ last.key # last.hitBefore) =>
          IF maxSize >= 2
          THEN last.hitBefore \notin Evicted(last.events) /\ Has(cache, last.hitBefore)
          ELSE Evicted(last.events) = {last.hitBefore}

\* A get hit, then a put of another key that evicted, in a cache of two or more.
HitThenFullPut ==
    /\ last.hitBefore # NoKey
    /\ PutMiss(last)
    /\ last.key # last.hitBefore
    /\ maxSize >= 2
    /\ Has(cache, last.hitBefore)

\* Every statement that takes an entry out is directly followed by _free_memory.
FreedRightAfter(events) ==
    \A i \in DOMAIN events :
        events[i].e \in {"popitem", "delitem", "clear"} =>
            (i + 1 \in DOMAIN events /\ events[i + 1].e = "free_memory")

\* C4: a put that evicts and a remove that removes call _free_memory exactly
\* once, inside the call and after the entry is gone; a put evicts at most
\* one entry; a remove of an absent key and a put without eviction do not
\* call it; clear calls it at least once.
HookOncePerRemoval ==
    /\ FreedRightAfter(last.events)
    /\ last.op \in {"chat", "preload", "unload"} =>
          /\ Count(last.events, "free_memory") =
                Count(last.events, "popitem") + Count(last.events, "delitem")
          /\ Count(last.events, "popitem") + Count(last.events, "delitem") <= 1
    /\ (last.op = "unload" /\ last.status = 200) =>
          (Count(last.events, "delitem") = 1 /\ ~Has(cache, last.key))
    /\ last.op = "shutdown" =>
          (Count(last.events, "free_memory") >= 1 /\ cache = <<>>)

\* A remove took a resident entry out.
RemovedResident ==
    /\ last.op = "unload"
    /\ last.status = 200
    /\ Count(last.events, "delitem") = 1

\* C5: a put of a resident key leaves the key set and the size as they were,
\* leaves the key last (most recent) holding the new bundle in place of the
\* old one, and keeps the other entries in their order.
PutOfResidentReplaces ==
    [][(Idle /\ last'.put /\ Has(cache, last'.key)) =>
         /\ KeySet(cache') = KeySet(cache)
         /\ Len(cache') = Len(cache)
         /\ cache'[Len(cache')] = [key |-> last'.key, value |-> last'.value]
         /\ last'.value # ValueOf(cache, last'.key)
         /\ Without(cache', last'.key) = Without(cache, last'.key)]_vars

\* A resident key was put again while other entries were resident.
ResidentPutAgain ==
    /\ PutHit(last)
    /\ Len(cache) >= 2
    /\ cache[Len(cache)].value = last.value

\* C6: a load that built a bundle always puts it; after a put of an absent
\* key, into a full cache or not, the key is resident as the most recent
\* entry with that bundle, and a get of it returns that bundle.
PutOfAbsentAdmits ==
    /\ last.kind \in {"ok", "nometa"} => (last.put /\ Has(cache, last.key))
    /\ (last.op = "preload" /\ last.put) => last.status = 200
    /\ PutMiss(last) =>
          /\ Has(cache, last.key)
          /\ cache[Len(cache)] = [key |-> last.key, value |-> last.value]
          /\ CacheGet(cache, last.key).hit
          /\ CacheGet(cache, last.key).value = last.value

\* A chat request put an absent key into a full cache.
AdmittedIntoFull ==
    /\ PutMiss(last)
    /\ last.op = "chat"
    /\ Evicted(last.events) # {}
    /\ cache[Len(cache)].key = last.key

\* C7 as stated: a chat or preload request for a resident key is a cache
\* hit and does not call load_model.
ResidentNeverReloaded ==
    [][(Idle /\ last'.op \in {"chat", "preload"} /\ Has(cache, last'.key)) =>
         (last'.hit /\ last'.loads = 0)]_vars

\* C7 amended: a chat request for a resident key is a cache hit, returns
\* the resident bundle and does not call load_model; a preload request calls
\* load_model every time, resident key or not.
ResidentServedFromCache ==
    [][/\ (Idle /\ last'.op = "chat" /\ Has(cache, last'.key)) =>
              /\ last'.hit
              /\ last'.loads = 0
              /\ last'.value = ValueOf(cache, last'.key)
              /\ clock' = clock
       /\ last'.op = "preload" => (~last'.hit /\ last'.loads = 1)]_vars

\* A chat request was answered from the cache.
ServedFromCache ==
    /\ last.op = "chat"
    /\ last.hit
    /\ last.loads = 0
    /\ Has(cache, last.key)

\* The last handler called load_model and it raised.
LoadFailed(lst) == lst.op \in {"chat", "preload"} /\ lst.loads = 1 /\ lst.value = NoValue

\* C8 as stated: a failed load answers with an error and leaves the cache
\* as it was (entries, bundles, order, nothing evicted), and the key of
\* the failed load is not resident.
FailedLoadKeyNotResident ==
    [][LoadFailed(last') =>
         /\ last'.status \in {404, 500}
         /\ cache' = cache
         /\ stamp' = stamp
         /\ last'.events = <<>>
         /\ ~Has(cache', last'.key)]_vars

\* C8 amended: a failed load answers with an error and leaves the cache as
\* it was; it does not make its key resident: the key is resident afterwards
\* exactly if it was before, which a chat request's key never is.
FailedLoadLeavesCacheAlone ==
    [][LoadFailed(last') =>
         /\ last'.status \in {404, 500}
         /\ last'.kind \in {"missing", "noweights"} => last'.status = 404
         /\ cache' = cache
         /\ stamp' = stamp
         /\ clock' = clock
         /\ last'.events = <<>>
         /\ Has(cache', last'.key) <=> Has(cache, last'.key)
         /\ last'.op = "chat" => ~Has(cache', last'.key)]_vars

\* A load failed while the cache was full.
LoadFailedOnFullCache ==
    /\ LoadFailed(last)
    /\ last.kind \in {"missing", "noweights", "corrupt"}
    /\ Len(cache) = maxSize
    /\ ~Has(cache, last.key)

\* C9: a load that finds a malformed training_config.json succeeds with an
\* empty config and its key becomes resident.
MalformedMetadataTolerated ==
    last.kind = "badmeta" =>
        /\ last.put
        /\ last.value # NoValue
        /\ last.config = "empty"
        /\ Has(cache, last.key)

\* C10: chat requests for one absent key, served one after the other with
\* no other handler in between, call load_model once in all, and all of
\* them get the one bundle that load built, which is the resident one.
OneLoadPerRun ==
    run.served >= 1 =>
        /\ run.loads = 1
        /\ Has(cache, run.key)
        /\ run.values = {ValueOf(cache, run.key)}

\* Two or more requests for an absent key have been served.
SeveralServedForAbsentKey ==
    /\ run.served >= 2
    /\ run.loads = 1
    /\ last.op = "chat"
    /\ last.key = run.key

BothAbsentKeysAdmitted ==
    (pair # NoPair /\ maxSize >= 2) =>
        /\ Has(cache, pair.first)
        /\ Has(cache, pair.second)
        /\ last.key = pair.second
        /\ last.value = ValueOf(cache, pair.second)
        /\ last.value # NoValue
        /\ Idle => last.status \in GenerateCodes([status |-> 200])

\* Both requests have returned, and the second one evicted to make room.
BothAnsweredAfterEviction ==
    /\ pair # NoPair
    /\ maxSize >= 2
    /\ Idle
    /\ last.status = 200
    /\ Evicted(last.events) # {}

\* C13: in a cache of size 1, admitting a key other than the sole occupant
\* evicts that occupant, calls _free_memory once, and leaves the new key as
\* the only entry that /models lists; so preload(A) then preload(B) evicts A
\* and leaves B alone.
SizeOneEvictsOccupant ==
    [][(Idle /\ maxSize = 1 /\ cache # <<>> /\ last'.put /\ ~Has(cache, last'.key)) =>
         /\ Evicted(last'.events) = KeySet(cache)
         /\ Count(last'.events, "popitem") = 1
         /\ Count(last'.events, "free_memory") = 1
         /\ KeySet(cache') = {last'.key}
         /\ CacheValues(cache') = <<last'.value>>
         /\ (last.op = "preload" /\ last.put /\ last'.op = "preload") =>
                (Evicted(last'.events) = {last.key} /\ last'.status = 200)]_vars

\* A preload into a cache of size 1 has replaced the occupant.
SizeOneOccupantReplaced ==
    /\ maxSize = 1
    /\ last.op = "preload"
    /\ PutMiss(last)
    /\ Evicted(last.events) # {}
    /\ KeySet(cache) = {last.key}

\* C14: unload of a resident key answers 200, removes that entry and no
\* other, and keeps the other entries, their bundles and their order; unload
\* of an absent key answers 404, leaves the cache as it was and calls no
\* _free_memory.
UnloadRemovesOnlyItsKey ==
    [][last'.op = "unload" =>
         IF Has(cache, last'.key)
         THEN /\ last'.status = 200
              /\ ~Has(cache', last'.key)
              /\ Len(cache') = Len(cache) - 1
              /\ \A i \in DOMAIN cache :
                    cache[i].key # last'.key =>
                        /\ Has(cache', cache[i].key)
                        /\ ValueOf(cache', cache[i].key) = cache[i].value
                        /\ \A j \in DOMAIN cache :
                              (i < j /\ cache[j].key # last'.key) =>
                                  IndexOf(cache', cache[i].key) < IndexOf(cache', cache[j].key)
              /\ Count(last'.events, "delitem") = 1
              /\ Count(last'.events, "free_memory") = 1
         ELSE /\ last'.status = 404
              /\ cache' = cache
              /\ stamp' = stamp
              /\ last'.events = <<>>]_vars

\* An unload removed a resident key and left another entry behind.
UnloadedOneOfSeveral ==
    /\ last.op = "unload"
    /\ last.status = 200
    /\ Count(last.events, "delitem") = 1
    /\ cache # <<>>

----------------------------------------------------------------------------
\* Properties of clean_response (specification SpecClean)

RECURSIVE TrimLeft(_)
TrimLeft(s) == IF s # <<>> /\ Head(s) \in Whitespace THEN TrimLeft(Tail(s)) ELSE s

RECURSIVE TrimRight(_)
TrimRight(s) ==
    IF s # <<>> /\ s[Len(s)] \in Whitespace
    THEN TrimRight(SubSeq(s, 1, Len(s) - 1))
    ELSE s

Trim(s) == TrimRight(TrimLeft(s))

\* The text left after the prompt is stripped and the blanks are trimmed.
Stripped(raw, prompt) ==
    Trim(IF \E rest \in {SubSeq(raw, Len(prompt) + 1, Len(raw))} : raw = prompt \o rest
         THEN SubSeq(raw, Len(prompt) + 1, Len(raw))
         ELSE raw)

\* The procedure as the specification words it, with indices from 0.
Reference(raw, prompt) ==
    LET t == Stripped(raw, prompt)
        ends == {i \in 0 .. Len(t) - 1 : t[i + 1] \in Terminators}
    IN  IF t = <<>> THEN Fallback
        ELSE IF ends = {} \/ ends = {0} THEN t
        ELSE LET i == CHOOSE e \in ends : \A f \in ends : f <= e
                 cut == Trim(SubSeq(t, 1, i + 1))
             IN  IF cut = <<>> THEN Fallback ELSE cut

\* C15: for every raw text and prompt, clean_response returns what the
\* reference procedure returns: the prompt is stripped only when raw begins
\* with it, blanks are trimmed, and the text is cut after its last
\* terminator when that one is at an index above 0 and left alone otherwise;
\* the two worked examples come out as stated.
CleanMatchesReference ==
    text.done =>
        /\ text.response = Reference(text.raw, text.prompt)
        /\ (text.raw = SkyRaw /\ text.prompt = <<>>) => text.response = SkyOut
        /\ (text.raw = HelloRaw /\ text.prompt = HelloPrompt) => text.response = HelloOut

\* The second worked example has been computed.
CleanedHelloExample ==
    /\ text.done
    /\ text.raw = HelloRaw
    /\ text.prompt = HelloPrompt
    /\ text.response = HelloOut

\* C16: clean_response never returns an empty or all-blank string, and it
\* returns the fallback string whenever nothing is left of raw after the
\* prompt is stripped and the blanks are trimmed.
CleanNeverEmpty ==
    text.done =>
        /\ text.response # <<>>
        /\ \E i \in DOMAIN text.response : text.response[i] \notin Whitespace
        /\ Stripped(text.raw, text.prompt) = <<>> => text.response = Fallback

\* A raw text equal to its non-empty prompt came back as the fallback.
CleanedEchoOnly ==
    /\ text.done
    /\ text.raw # <<>>
    /\ text.raw = text.prompt
    /\ text.response = Fallback

----------------------------------------------------------------------------
\* Properties of the service, continued (specification Spec)

\* C17 as stated: a call of load_model, successful or not, returns with the
\* cache as it found it (same entries, bundles and order); the bundle gets
\* into the cache by a put that the caller performs afterwards.
LoaderLeavesCacheAlone ==
    [][(Idle /\ last'.op \in {"chat", "preload"} /\ last'.loads = 1) =>
         LoadModel(cache, maxSize, last'.key, last'.kind, clock).cache = cache]_vars

\* C18: the cache operations of different requests never interleave, so in
\* every reachable state, also right after two puts of distinct new keys
\* by two requests in a row and while a generation is running, the cache
\* holds at most maxSize entries with distinct keys, no statement of the
\* last handler left more than maxSize entries behind, and the order of the
\* entries is the order of their last accesses.
CacheOpsSerialized ==
    /\ Len(cache) <= maxSize
    /\ \A i \in DOMAIN last.events : last.events[i].size <= maxSize
    /\ \A i, j \in DOMAIN cache : cache[i].key = cache[j].key => i = j
    /\ \A k \in Keys : Has(cache, k) <=> stamp[k] # 0
    /\ \A i \in DOMAIN cache : stamp[cache[i].key] = i

\* Two requests in a row have each put a new key, the second into a full
\* cache, and the second one's generation is still running.
TwoPutsBackToBack ==
    /\ pair # NoPair
    /\ busy # NoBusy
    /\ Evicted(last.events) # {}
    /\ Len(cache) = maxSize

\* C19: a put of a resident key pops nothing and calls no _free_memory, also
\* when the cache is full, and the bundle the key held before is in the
\* cache no more; the only handler that does such a put is preload of a
\* resident key, which loads once more and answers with the new bundle.
ResidentPutReclaimsNothing ==
    [][(Idle /\ last'.put /\ Has(cache, last'.key)) =>
         /\ Evicted(last'.events) = {}
         /\ \A i \in DOMAIN last'.events :
               last'.events[i].e \in {"move_to_end", "setitem"}
         /\ last'.op = "preload"
         /\ last'.loads = 1
         /\ last'.status = 200
         /\ ValueOf(cache', last'.key) = last'.value
         /\ \A i \in DOMAIN cache' : cache'[i].value # ValueOf(cache, last'.key)]_vars

\* A preload of a resident key has replaced its bundle in a full cache.
ResidentPreloadedIntoFull ==
    /\ PutHit(last)
    /\ last.op = "preload"
    /\ Len(cache) = maxSize
    /\ Count(last.events, "free_memory") = 0

====
